---------------------------- MODULE Spec2Model ----------------------------
(***************************************************************************)
(* Model of the Rida source modules of this repository:                    *)
(*   RNF  src/ReadFullNovelV2.js, the readNovelFullModule factory          *)
(*   EXP  src/ReadFullNovelV2.js, the top-level exported functions         *)
(*   RWN  src/unnamed/part_000, readNovelFullModule for www.readwn.com     *)
(*   MP1  src/unnamed/part_001, mangapillModule                            *)
(*   MP2  src/unnamed/part_002, mangapillModule (earlier revision)         *)
(*                                                                         *)
(* Text is a sequence of symbols.  A symbol is one character ("a", " ",    *)
(* "<", "&", a digit ...) or one fixed word of the markup the patterns     *)
(* spell out letter by letter ("br", "script", "nbsp", "amp" ...).  The    *)
(* regular expressions of the source are operators over such sequences.    *)
(* A document is the sequence of the elements the patterns of an adapter   *)
(* look for, in document order.                                            *)
(***************************************************************************)
EXTENDS Integers, Sequences, FiniteSets, TLC

(***************************************************************************)
(* Bounds of the model.                                                    *)
(***************************************************************************)
MaxBlocks == 2
MaxChapters == 2
MaxQueryLen == 2
MaxPages == 2
MaxPieces == 2

MaxDocLen == 2

MaxMatches == 3

Absent == <<"absent">>

(***************************************************************************)
(* Characters.                                                             *)
(***************************************************************************)
\* JavaScript's \s and String.prototype.trim: space, line break, tab, U+00A0
IsWs(c) == c \in {" ", "\n", "\t", "u00a0"}

IsDigit(c) == c \in {"0", "1", "2", "3", "4", "5", "6", "7", "8", "9"}

IsHexDigit(c) == IsDigit(c) \/ c \in {"a", "b", "c", "d", "e", "f"}

DigitVal(c) ==
  CASE c = "0" -> 0 [] c = "1" -> 1 [] c = "2" -> 2 [] c = "3" -> 3
    [] c = "4" -> 4 [] c = "5" -> 5 [] c = "6" -> 6 [] c = "7" -> 7
    [] c = "8" -> 8 [] c = "9" -> 9 [] c = "a" -> 10 [] c = "b" -> 11
    [] c = "c" -> 12 [] c = "d" -> 13 [] c = "e" -> 14 [] c = "f" -> 15

\* A non-negative integer is kept as its digits in base 2^16, the lowest
\* first; <<>> is 0 and the highest digit is not 0.
\* n * radix + carry, from digit i on
RECURSIVE MulAddFrom(_, _, _, _)
MulAddFrom(n, i, radix, carry) ==
  IF i > Len(n) THEN (IF carry = 0 THEN <<>> ELSE <<carry>>)
  ELSE <<(n[i] * radix + carry) % 65536>>
       \o MulAddFrom(n, i + 1, radix, (n[i] * radix + carry) \div 65536)

\* the mathematical integer a run of digits denotes
RECURSIVE IntegerOf(_, _)
IntegerOf(ds, radix) ==
  IF ds = <<>> THEN <<>>
  ELSE MulAddFrom(IntegerOf(SubSeq(ds, 1, Len(ds) - 1), radix), 1, radix,
                  DigitVal(ds[Len(ds)]))

RECURSIVE BitLen16(_)
BitLen16(x) == IF x = 0 THEN 0 ELSE 1 + BitLen16(x \div 2)

\* the number of significant bits of n
BitLen(n) == IF n = <<>> THEN 0 ELSE 16 * (Len(n) - 1) + BitLen16(n[Len(n)])

\* bit j of n, bit 0 the lowest
BitAt(n, j) == (n[(j \div 16) + 1] \div (2 ^ (j % 16))) % 2

AnyBitBelow(n, j) == \E i \in 0..(j - 1) : BitAt(n, i) = 1

\* n with its k lowest bits cleared
ClearBelow(n, k) ==
  [i \in 1..Len(n) |->
     IF 16 * i <= k THEN 0
     ELSE IF 16 * (i - 1) >= k THEN n[i]
     ELSE n[i] - (n[i] % (2 ^ (k - 16 * (i - 1))))]

RECURSIVE AddFrom(_, _, _)
AddFrom(n, i, carry) ==
  IF carry = 0 THEN SubSeq(n, i, Len(n))
  ELSE IF i > Len(n) THEN <<carry>>
  ELSE <<(n[i] + carry) % 65536>> \o AddFrom(n, i + 1, (n[i] + carry) \div 65536)

\* n + 2^k
AddPow2(n, k) == SubSeq(n, 1, k \div 16) \o AddFrom(n, (k \div 16) + 1, 2 ^ (k % 16))

\* n rounded to a multiple of 2^k: to the nearest, ties to even
RoundOff(n, k) ==
  IF BitAt(n, k - 1) = 1 /\ (AnyBitBelow(n, k - 1) \/ BitAt(n, k) = 1)
  THEN AddPow2(ClearBelow(n, k), k)
  ELSE ClearBelow(n, k)

\* the Number value of the integer n: a double has 53 significant bits
\* (below 2^1024, which no run of digits tried here reaches)
ToDouble(n) == IF BitLen(n) <= 53 THEN n ELSE RoundOff(n, BitLen(n) - 53)

\* parseInt(str, radix) of a run of digits: a Number
parseInt(ds, radix) == ToDouble(IntegerOf(ds, radix))

\* ToUint16: the Number modulo 2^16
ToUint16(n) == IF n = <<>> THEN 0 ELSE n[1]

\* the symbol of the UTF-16 code unit u
CodeUnit(u) ==
  CASE u = 9 -> "\t" [] u = 10 -> "\n" [] u = 32 -> " " [] u = 34 -> "\""
    [] u = 35 -> "#" [] u = 38 -> "&" [] u = 39 -> "'" [] u = 47 -> "/"
    [] u = 59 -> ";" [] u = 60 -> "<" [] u = 62 -> ">" [] u = 97 -> "a"
    [] u = 160 -> "u00a0"
    [] OTHER -> "u+" \o ToString(u)

\* a slip: String.fromCodePoint, the character with code point n
fromCharCode_CodePoint(n) ==
  IF Len(n) <= 1 THEN CodeUnit(ToUint16(n)) ELSE "u+10000 and above"

\* String.fromCharCode(n): one UTF-16 code unit, n taken modulo 2^16
fromCharCode(n) == CodeUnit(ToUint16(n))

\* the translate table of decodeEntities
translate(name) ==
  CASE name = "nbsp" -> " " [] name = "amp" -> "&" [] name = "quot" -> "\""
    [] name = "lt" -> "<" [] name = "gt" -> ">" [] name = "apos" -> "'"

(***************************************************************************)
(* Regular expressions as operators over symbol sequences.                 *)
(***************************************************************************)
\* the index of the first position >= i of s whose symbol is in cs, or 0
RECURSIVE IndexFrom(_, _, _)
IndexFrom(s, i, cs) ==
  IF i > Len(s) THEN 0
  ELSE IF s[i] \in cs THEN i
  ELSE IndexFrom(s, i + 1, cs)

\* the length of the longest run of whitespace starting at position i
RECURSIVE WsRun(_, _)
WsRun(s, i) == IF i <= Len(s) /\ IsWs(s[i]) THEN 1 + WsRun(s, i + 1) ELSE 0

RECURSIVE DigitRun(_, _)
DigitRun(s, i) == IF i <= Len(s) /\ IsDigit(s[i]) THEN 1 + DigitRun(s, i + 1) ELSE 0

RECURSIVE HexRun(_, _)
HexRun(s, i) == IF i <= Len(s) /\ IsHexDigit(s[i]) THEN 1 + HexRun(s, i + 1) ELSE 0

RECURSIVE NlRun(_, _)
NlRun(s, i) == IF i <= Len(s) /\ s[i] = "\n" THEN 1 + NlRun(s, i + 1) ELSE 0

At(s, i) == IF i >= 1 /\ i <= Len(s) THEN s[i] ELSE "eof"

\* the position just after the first  "<" "/" word ">"  at or after i, or 0
RECURSIVE CloseAfter(_, _, _)
CloseAfter(s, i, word) ==
  IF i + 3 > Len(s) THEN 0
  ELSE IF s[i] = "<" /\ s[i + 1] = "/" /\ s[i + 2] = word /\ s[i + 3] = ">"
       THEN i + 4
  ELSE CloseAfter(s, i + 1, word)

\* <word[^>]*>.*?<\/word>  (flags gis), for word = script, style
\* the length from i to position end (exclusive), 0 when there is no end
Upto(i, end) == IF end = 0 THEN 0 ELSE end - i

\* the length from i to position last (inclusive), 0 when there is no last
Through(i, last) == IF last = 0 THEN 0 ELSE last - i + 1

CloseAfterGt(s, gt, word) == IF gt = 0 THEN 0 ELSE CloseAfter(s, gt + 1, word)

BlockLen(s, i, word) ==
  IF At(s, i) = "<" /\ At(s, i + 1) = word
  THEN Upto(i, CloseAfterGt(s, IndexFrom(s, i + 2, {">"}), word))
  ELSE 0

\* a run of k digits from position j on, then ";": pre symbols come before it
RunThenSemi(s, j, k, pre) == IF k > 0 /\ At(s, j + k) = ";" THEN pre + k + 1 ELSE 0

\* "<" "br" then w whitespace symbols, an optional "/", and ">"
BrLen(s, i, w) ==
  IF At(s, i + 2 + w) = "/"
  THEN (IF At(s, i + 3 + w) = ">" THEN w + 4 ELSE 0)
  ELSE (IF At(s, i + 2 + w) = ">" THEN w + 3 ELSE 0)

\* "<" then sl symbols "/" (0 or 1), "p", [^>]* and ">"
PLen(s, i, sl) ==
  IF At(s, i + 1 + sl) = "p" THEN Through(i, IndexFrom(s, i + 2 + sl, {">"})) ELSE 0

\* the length of the match of pattern pat that starts at position i, 0 if none
MatchLen(pat, s, i) ==
  CASE pat \in {"named5", "named6"} ->
         \* /&(nbsp|amp|quot|lt|gt);/g  and, with apos, /&(nbsp|...|apos);/g
         IF At(s, i) = "&" /\ At(s, i + 2) = ";"
            /\ At(s, i + 1) \in ({"nbsp", "amp", "quot", "lt", "gt"}
                                  \cup IF pat = "named6" THEN {"apos"} ELSE {})
         THEN 3 ELSE 0
    [] pat = "dec" ->
         \* /&#(\d+);/gi
         IF At(s, i) = "&" /\ At(s, i + 1) = "#"
         THEN RunThenSemi(s, i + 2, DigitRun(s, i + 2), 2)
         ELSE 0
    [] pat = "hex" ->
         \* /&#x([0-9A-Fa-f]+);/gi
         IF At(s, i) = "&" /\ At(s, i + 1) = "#" /\ At(s, i + 2) = "x"
         THEN RunThenSemi(s, i + 3, HexRun(s, i + 3), 3)
         ELSE 0
    [] pat = "nbsp" ->
         \* /&nbsp;/g
         IF At(s, i) = "&" /\ At(s, i + 1) = "nbsp" /\ At(s, i + 2) = ";"
         THEN 3 ELSE 0
    [] pat = "br" ->
         \* /<br\s*\/?>/gi
         IF At(s, i) = "<" /\ At(s, i + 1) = "br"
         THEN BrLen(s, i, WsRun(s, i + 2))
         ELSE 0
    [] pat = "p" ->
         \* /<\/?p[^>]*>/gi
         IF At(s, i) = "<"
         THEN PLen(s, i, IF At(s, i + 1) = "/" THEN 1 ELSE 0)
         ELSE 0
    [] pat = "tag" ->
         \* /<[^>]*>/g
         IF At(s, i) = "<"
         THEN Through(i, IndexFrom(s, i + 1, {">"}))
         ELSE 0
    [] pat = "script" -> BlockLen(s, i, "script")
    [] pat = "style" -> BlockLen(s, i, "style")
    [] pat = "nl3" ->
         \* /\n{3,}/g
         IF NlRun(s, i) >= 3 THEN NlRun(s, i) ELSE 0

\* what String.prototype.replace puts in place of the match of length n at i
Replacement(pat, s, i, n) ==
  CASE pat \in {"named5", "named6"} -> <<translate(s[i + 1])>>
    [] pat = "dec" -> <<fromCharCode(parseInt(SubSeq(s, i + 2, i + n - 2), 10))>>
    [] pat = "hex" -> <<fromCharCode(parseInt(SubSeq(s, i + 3, i + n - 2), 16))>>
    [] pat = "nbsp" -> <<" ">>
    [] pat = "br" -> <<"\n">>
    [] pat = "p" -> <<"\n", "\n">>
    [] pat = "nl3" -> <<"\n", "\n">>
    [] OTHER -> <<>>

\* s.replace(/pat/g, ...): one pass, left to right, matches do not overlap and
\* the replacement text is not scanned again
RECURSIVE ReplaceFrom(_, _, _)
\* n is the length of the match at i: replace it, or keep s[i] and move on
ReplaceAt(pat, s, i, n) ==
  IF n > 0 THEN Replacement(pat, s, i, n) \o ReplaceFrom(pat, s, i + n)
  ELSE <<s[i]>> \o ReplaceFrom(pat, s, i + 1)

ReplaceFrom(pat, s, i) ==
  IF i > Len(s) THEN <<>> ELSE ReplaceAt(pat, s, i, MatchLen(pat, s, i))

ReplaceAll(pat, s) == ReplaceFrom(pat, s, 1)

RECURSIVE TrimLeft(_)
TrimLeft(s) == IF s # <<>> /\ IsWs(s[1]) THEN TrimLeft(Tail(s)) ELSE s

RECURSIVE TrimRight(_)
TrimRight(s) ==
  IF s # <<>> /\ IsWs(s[Len(s)]) THEN TrimRight(SubSeq(s, 1, Len(s) - 1)) ELSE s

\* a slip: one whitespace character taken off each end
trim_Once(s) ==
  SubSeq(s, IF s # <<>> /\ IsWs(s[1]) THEN 2 ELSE 1,
            IF Len(s) >= 2 /\ IsWs(s[Len(s)]) THEN Len(s) - 1 ELSE Len(s))

\* String.prototype.trim
trim(s) == TrimRight(TrimLeft(s))

(***************************************************************************)
(* decodeEntities and cleanHtmlText of each adapter.                       *)
(***************************************************************************)
Adapters == {"RNF", "EXP", "RWN", "MP1", "MP2"}

\* decodeEntities: empty or undefined input gives ''; named references, then
\* decimal ones, then hexadecimal ones.  RWN adds &apos;, MP2 has no
\* hexadecimal pass and no guard for an empty input (which replace leaves '').
hexEntities(a, s) == IF a = "MP2" THEN s ELSE ReplaceAll("hex", s)

decodeEntities(a, s) ==
  IF s = <<>> THEN <<>>
  ELSE hexEntities(a, ReplaceAll("dec",
                        ReplaceAll(IF a = "RWN" THEN "named6" ELSE "named5", s)))

\* cleanHtmlText of RNF: <br> to a line break, tags stripped, trimmed, and
\* only then decoded
cleanHtmlTextRNF(html) ==
  IF html = <<>> THEN <<>>
  ELSE decodeEntities("RNF", trim(ReplaceAll("tag", ReplaceAll("br", html))))

\* cleanHtmlText of RWN: script and style blocks removed, <p> to two line
\* breaks, <br> to one, tags stripped, decoded, line breaks collapsed, trimmed
cleanHtmlTextRWN(html) ==
  IF html = <<>> THEN <<>>
  ELSE trim(ReplaceAll("nl3", decodeEntities("RWN",
         ReplaceAll("tag", ReplaceAll("br", ReplaceAll("p",
           ReplaceAll("style", ReplaceAll("script", html))))))))

\* the clean-up inside the exported getContent: <br>, tags, &nbsp;, trim
cleanInnerHtmlEXP(html) ==
  trim(ReplaceAll("nbsp", ReplaceAll("tag", ReplaceAll("br", html))))

cleanHtmlText(a, html) ==
  CASE a = "RNF" -> cleanHtmlTextRNF(html)
    [] a = "RWN" -> cleanHtmlTextRWN(html)
    [] a = "EXP" -> cleanInnerHtmlEXP(html)

\* the value undefined passed where a string is expected
Undefined == <<"undefined">>

\* a call of decodeEntities: its return value, or the exception it throws.
\* Each decodeEntities begins with  if (!encodedString) return ''  except
\* MP2's, which calls encodedString.replace at once: TypeError on undefined.
decodeEntitiesCall(a, x) ==
  IF x = Undefined THEN (IF a = "MP2" THEN [k |-> "raise"] ELSE [k |-> "return", v |-> <<>>])
  ELSE [k |-> "return", v |-> decodeEntities(a, x)]

\* a call of cleanHtmlText (RNF, RWN):  if (!html) return ''
cleanHtmlTextCall(a, x) ==
  IF x = Undefined THEN [k |-> "return", v |-> <<>>]
  ELSE [k |-> "return", v |-> cleanHtmlText(a, x)]

\* The reverse helper of the tests: each character that has a reference is
\* replaced by its named, decimal or hexadecimal reference, among the
\* references the decoder of adapter a knows.
EncodeForms(a) == IF a = "MP2" THEN {"named", "dec"} ELSE {"named", "dec", "hex"}

HasReference(a, c) == c \in {"&", "<", ">", "\"", "u00a0"} \/ (a = "RWN" /\ c = "'")

NamedRef(c) ==
  CASE c = "&" -> "amp" [] c = "<" -> "lt" [] c = ">" -> "gt" [] c = "\"" -> "quot"
    [] c = "u00a0" -> "nbsp" [] c = "'" -> "apos"

DecRef(c) ==
  CASE c = "&" -> <<"3", "8">> [] c = "<" -> <<"6", "0">> [] c = ">" -> <<"6", "2">>
    [] c = "\"" -> <<"3", "4">> [] c = "u00a0" -> <<"1", "6", "0">>
    [] c = "'" -> <<"3", "9">>

HexRef(c) ==
  CASE c = "&" -> <<"2", "6">> [] c = "<" -> <<"3", "c">> [] c = ">" -> <<"3", "e">>
    [] c = "\"" -> <<"2", "2">> [] c = "u00a0" -> <<"a", "0">>
    [] c = "'" -> <<"2", "7">>

encodeChar(a, form, c) ==
  IF ~HasReference(a, c) THEN <<c>>
  ELSE CASE form = "named" -> <<"&", NamedRef(c), ";">>
         [] form = "dec" -> <<"&", "#">> \o DecRef(c) \o <<";">>
         [] form = "hex" -> <<"&", "#", "x">> \o HexRef(c) \o <<";">>

RECURSIVE encode(_, _, _)
encode(a, form, s) ==
  IF s = <<>> THEN <<>> ELSE encodeChar(a, form, s[1]) \o encode(a, form, Tail(s))

\* the texts the helpers are tried on: up to MaxPieces pieces in a row; z
\* and y stand for the content of a script and of a style block and occur
\* nowhere else
TextPieces ==
  {<<"a">>, <<" ">>, <<"\n">>, <<"\n", "\n">>, <<"&">>, <<"u00a0">>, <<"#", "3", "8", ";">>,
   <<"&", "amp", ";">>, <<"&", "nbsp", ";">>, <<"&", "apos", ";">>, <<"&", "lt", ";">>,
   <<"&", "#", "3", "8", ";">>, <<"&", "#", "x", "2", "6", ";">>,
   <<"<", "b", ">">>, <<"<", "br", ">">>, <<"b", ">">>,
   <<"<", "script", ">", "z", "<", "/", "script", ">">>,
   <<"<", "style", ">", "y", "<", "/", "style", ">">>,
   <<"&", "#", "6", "5", "5", "7", "4", ";">>,
   <<"&", "#", "x", "1", "0", "0", "2", "6", ";">>,
   <<"&", "#", "9", "0", "0", "7", "1", "9", "9", "2", "5", "4", "7", "4", "0", "9",
     "9", "3", ";">>}

RECURSIVE Concat(_, _)
Concat(ps, n) == IF n = 0 THEN <<>> ELSE Concat(ps, n - 1) \o ps[n]

Texts == {Concat(ps, Len(ps)) : ps \in UNION {[1..n -> TextPieces] : n \in 0..MaxPieces}}

\* The patterns extractAll is tried with: a, a?, a+, a*, each with and
\* without the g flag; the documents are strings over a and b.
ScanPatterns == [sym : {"a"}, min : {0, 1}, many : BOOLEAN, global : BOOLEAN]

ScanDocs == UNION {[1..n -> {"a", "b"}] : n \in 0..MaxDocLen}

\* how many sym there are in a row from position i (1-based) of doc
RECURSIVE RunLen(_, _, _)
RunLen(doc, i, sym) ==
  IF i > Len(doc) \/ doc[i] # sym THEN 0 ELSE 1 + RunLen(doc, i + 1, sym)

\* the length of the (greedy) match of pat where run sym follow
TakeLen(pat, run) == IF pat.many THEN run ELSE IF run >= 1 THEN 1 ELSE 0

\* the match of pat at index i (0-based) of doc: its length, -1 when none
MatchLenAt(pat, doc, i) ==
  IF TakeLen(pat, RunLen(doc, i + 1, pat.sym)) >= pat.min
  THEN TakeLen(pat, RunLen(doc, i + 1, pat.sym)) ELSE -1

\* the index of the first match at or after index i, -1 when none
RECURSIVE FirstMatchFrom(_, _, _)
FirstMatchFrom(pat, doc, i) ==
  IF i > Len(doc) THEN -1
  ELSE IF MatchLenAt(pat, doc, i) >= 0 THEN i
  ELSE FirstMatchFrom(pat, doc, i + 1)

\* where RegExp.prototype.exec starts: at lastIndex with the g flag, at 0
\* without it
ExecStart(pat, lastIndex) == IF pat.global THEN lastIndex ELSE 0

\* regex.exec(html): the index of the match, -1 for null
ExecIndex(pat, doc, lastIndex) == FirstMatchFrom(pat, doc, ExecStart(pat, lastIndex))

\* lastIndex after exec found a match at index: the end of the match with
\* the g flag (exec itself never steps over an empty match), untouched
\* without it
ExecLastIndex(pat, doc, lastIndex, index) ==
  IF pat.global THEN index + MatchLenAt(pat, doc, index) ELSE lastIndex

\* matches.push(match); of the array the first MaxMatches elements are kept
Push(matches, m) == IF Len(matches) < MaxMatches THEN Append(matches, m) ELSE matches

\* no call of extractAll; turn is the parity of the iterations made
NoScan == [pc |-> "none", pat |-> [sym |-> "a", min |-> 1, many |-> FALSE, global |-> TRUE],
           doc |-> <<>>, lastIndex |-> 0, matches |-> <<>>, turn |-> 0]

\* no helper applied yet
NoProbe == [fns |-> <<>>, vals |-> <<>>, raised |-> FALSE]

(***************************************************************************)
(* Origins and request URLs.                                               *)
(***************************************************************************)
\* BASE_URL (RNF, EXP), currentSiteUrl (RWN), baseURL (MP1, MP2)
Origin(a) ==
  CASE a \in {"RNF", "EXP"} -> "https://readnovelfull.com"
    [] a = "RWN" -> "https://www.readwn.com"
    [] a \in {"MP1", "MP2"} -> "https://mangapill.com"

PlaceholderCover == <<"https://via.placeholder.com/150x200?text=No+Cover">>

\* origin + "/" + path segments joined by "/" + suffix (+ "?keyword=" query)
Url(origin, path, suffix, query) ==
  [origin |-> origin, path |-> path, suffix |-> suffix, query |-> query]

\* A query is a sequence of UTF-16 code units: "a", " ", and the two halves
\* "hi", "lo" of a surrogate pair.
QueryUnits == {"a", " ", "hi", "lo"}

RECURSIVE WellFormedUtf16(_)
WellFormedUtf16(q) ==
  IF q = <<>> THEN TRUE
  ELSE IF q[1] = "hi" THEN Len(q) >= 2 /\ q[2] = "lo" /\ WellFormedUtf16(SubSeq(q, 3, Len(q)))
  ELSE q[1] # "lo" /\ WellFormedUtf16(Tail(q))

RECURSIVE PercentEncode(_)
PercentEncode(q) ==
  IF q = <<>> THEN <<>>
  ELSE IF q[1] = "hi" THEN <<"%F0%9F%98%80">> \o PercentEncode(SubSeq(q, 3, Len(q)))
  ELSE IF q[1] = " " THEN <<"%20">> \o PercentEncode(Tail(q))
  ELSE <<q[1]>> \o PercentEncode(Tail(q))

\* encodeURIComponent: throws URIError on a lone surrogate
encodeURIComponent(q) ==
  IF WellFormedUtf16(q) THEN [ok |-> TRUE, v |-> PercentEncode(q)]
  ELSE [ok |-> FALSE, v |-> <<>>]

\* query.replace(/\s+/g, '-') of RWN's search
RECURSIVE DashSpaces(_)
DashSpaces(q) ==
  IF q = <<>> THEN <<>>
  ELSE IF IsWs(q[1]) THEN <<"-">> \o DashSpaces(SubSeq(q, 1 + WsRun(q, 1), Len(q)))
  ELSE <<q[1]>> \o DashSpaces(Tail(q))

\* the search URL of each adapter, or the URIError of encodeURIComponent
searchUrlOf(a, enc) ==
  IF ~enc.ok THEN [ok |-> FALSE]
  ELSE [ok |-> TRUE,
        url |-> CASE a \in {"RNF", "EXP"} ->
                       Url(Origin(a), <<"novel-list", "search">>, "", enc.v)
                  [] a = "RWN" -> Url(Origin(a), <<"search">> \o enc.v, "", <<>>)
                  [] OTHER -> Url(Origin(a), <<"search">>, "", enc.v)]

searchUrl(a, q) ==
  searchUrlOf(a, encodeURIComponent(IF a = "RWN" THEN DashSpaces(q) ELSE q))

\* bookUrl / bookURL of getBookDetails
bookUrl(a, id) ==
  CASE a = "RNF" -> Url(Origin(a), id, ".html", <<>>)
    [] a = "RWN" -> Url(Origin(a), <<"novel">> \o id, "", <<>>)
    [] OTHER -> Url(Origin(a), id, "", <<>>)

\* fallbackUrl of RNF: the same path without .html
fallbackUrl(a, id) == Url(Origin(a), id, "", <<>>)

\* chaptersUrl of RNF: /ajax/chapter-archive?novelId=N
chaptersUrl(a, novelId) ==
  Url(Origin(a), <<"ajax", "chapter-archive">>, "", novelId)

\* chapterUrl / chapterURL of getContent; RWN builds it from book.id
chapterUrl(a, id, book) ==
  CASE a = "RNF" -> Url(Origin(a), id, ".html", <<>>)
    [] a = "RWN" -> Url(Origin(a), <<"novel">> \o book.id \o id, "", <<>>)
    [] OTHER -> Url(Origin(a), id, "", <<>>)

\* path.split('/').pop() of an absolute path: its last segment
LastSegment(path) == IF path = <<>> THEN <<>> ELSE <<path[Len(path)]>>

(***************************************************************************)
(* Search documents: a sequence of result blocks.  Block n carries fields  *)
(* that name n, so a result shows which block each of its fields is from.  *)
(***************************************************************************)
DigitOf(n) == CASE n = 1 -> "1" [] n = 2 -> "2" [] n = 3 -> "3" [] OTHER -> "4"

BlockKinds == {"ok", "notitle", "blank"}

CoverKinds == {"rel", "abs"}

\* every search document: up to MaxBlocks blocks; a block is well-formed
\* ("ok"), lacks its title element ("notitle") or has a blank title ("blank")
SearchDocs ==
  UNION {[1..n -> [kind : BlockKinds, cover : CoverKinds]] : n \in 0..MaxBlocks}

BlockSlug(n) == "b" \o DigitOf(n)

\* the href of block n as its site writes it
BlockHref(a, n) ==
  CASE a \in {"RNF", "EXP"} -> <<BlockSlug(n)>>
    [] a = "RWN" -> <<"novel", BlockSlug(n)>>
    [] OTHER -> <<"manga", DigitOf(n), BlockSlug(n)>>

BlockCover(blk, n) ==
  IF blk.cover = "abs" THEN <<"http", "cdn", DigitOf(n)>> ELSE <<"/", "img", DigitOf(n)>>

BlockTitle(blk, n) == IF blk.kind = "blank" THEN <<" ">> ELSE <<"T", DigitOf(n), " ">>

BlockAuthor(n) == <<"A", DigitOf(n)>>

BlockDesc(n) == <<"D", DigitOf(n), "<", "br", ">">>

\* the elements of block n that the item pattern of adapter a looks for
LinkToken(a, blk, n) ==
  [t |-> "link", n |-> n, href |-> BlockHref(a, n), src |-> BlockCover(blk, n)]

TitleTokens(blk, n) ==
  IF blk.kind = "notitle" THEN <<>>
  ELSE <<[t |-> "title", n |-> n, text |-> BlockTitle(blk, n)]>>

BlockTokens(a, blk, n) ==
  (IF a = "RNF" THEN <<[t |-> "col", n |-> n]>> ELSE <<>>)
    \o <<LinkToken(a, blk, n)>> \o TitleTokens(blk, n)
    \o (IF a = "RNF" THEN <<[t |-> "author", n |-> n, text |-> BlockAuthor(n)]>> ELSE <<>>)
    \o (IF a \in {"RNF", "RWN"} THEN <<[t |-> "desc", n |-> n, html |-> BlockDesc(n)]>>
        ELSE <<>>)

RECURSIVE TokensFrom(_, _, _)
TokensFrom(a, doc, n) ==
  IF n > Len(doc) THEN <<>>
  ELSE BlockTokens(a, doc[n], n) \o TokensFrom(a, doc, n + 1)

SearchTokens(a, doc) == TokensFrom(a, doc, 1)

\* the index of the first element of kind t at or after position i, or 0
RECURSIVE TokFrom(_, _, _)
TokFrom(toks, i, t) ==
  IF i > Len(toks) THEN 0
  ELSE IF toks[i].t = t THEN i
  ELSE TokFrom(toks, i + 1, t)

\* the index of the first element of kind t after element i, 0 when i is 0
TokAfter(toks, i, t) == IF i = 0 THEN 0 ELSE TokFrom(toks, i + 1, t)

\* One regex.exec of the item pattern from position p: the match that starts
\* earliest, as [end, m1 .. m5], or [end |-> 0] when nothing matches.
\*  RNF  comprehensiveItemRegex (flags gis): <div class="col-xs-3 .*? link
\*       .*? title .*? author .*? desc, every .*? crossing anything
\*  RWN  itemRegex: link, title right after it, then .*? the next <p>
\*  MP   itemRegex: link, title div right after it
ItemOfRNF(toks, l, h, u, d) ==
  IF d = 0 THEN [end |-> 0]
  ELSE [end |-> d, m1 |-> toks[l].href, m2 |-> toks[l].src,
        m3 |-> toks[h].text, m4 |-> toks[u].text, m5 |-> toks[d].html]

ItemFromAuthor(toks, l, h, u) == ItemOfRNF(toks, l, h, u, TokAfter(toks, u, "desc"))

ItemFromTitle(toks, l, h) == ItemFromAuthor(toks, l, h, TokAfter(toks, h, "author"))

ItemFromLink(toks, l) == ItemFromTitle(toks, l, TokAfter(toks, l, "title"))

ItemFromCol(toks, c) == ItemFromLink(toks, TokAfter(toks, c, "link"))

ItemOfRWN(toks, l, d) ==
  IF d = 0 THEN [end |-> 0]
  ELSE [end |-> d, m1 |-> toks[l].href, m2 |-> toks[l].src,
        m4 |-> toks[l + 1].text, m5 |-> toks[d].html]

RECURSIVE ItemExec(_, _, _)
ItemAtLink(a, toks, l) ==
  IF l = 0 \/ l = Len(toks) THEN [end |-> 0]
  ELSE IF toks[l + 1].t # "title" THEN ItemExec(a, toks, l + 1)
  ELSE IF a = "RWN" THEN ItemOfRWN(toks, l, TokFrom(toks, l + 2, "desc"))
  ELSE [end |-> l + 1, m1 |-> toks[l].href, m2 |-> toks[l].src,
        m4 |-> toks[l + 1].text]

ItemExec(a, toks, p) ==
  IF a = "RNF" THEN ItemFromCol(toks, TokFrom(toks, p, "col"))
  ELSE ItemAtLink(a, toks, TokFrom(toks, p, "link"))

\* extractAll(html, itemRegex): exec until null, each from the last match's end
RECURSIVE ItemMatchesFrom(_, _, _)
ItemMatchesAfter(a, toks, m) ==
  IF m.end = 0 THEN <<>> ELSE <<m>> \o ItemMatchesFrom(a, toks, m.end + 1)

ItemMatchesFrom(a, toks, p) == ItemMatchesAfter(a, toks, ItemExec(a, toks, p))

extractAllItems(a, toks) == ItemMatchesFrom(a, toks, 1)

\* match.startsWith('http') ? match : origin + match
absoluteUrl(a, src) == IF src # <<>> /\ src[1] = "http" THEN src ELSE <<Origin(a)>> \o src

\* value || fallback
orElse(v, fallback) == IF v = <<>> THEN fallback ELSE v

\* if (id && title) results.push({...})
pushRNF(a, id, title, author, coverUrl, description) ==
  IF id # <<>> /\ title # <<>>
  THEN <<[id |-> id, title |-> title,
          author |-> orElse(author, <<"Unknown Author">>),
          coverUrl |-> orElse(coverUrl, PlaceholderCover),
          description |-> orElse(description, <<"No description available.">>)]>>
  ELSE <<>>

pushRWN(a, id, title, coverUrl, description, path) ==
  IF id # <<>> /\ title # <<>>
  THEN <<[id |-> id, title |-> title, author |-> <<>>, coverUrl |-> coverUrl,
          description |-> description, _path |-> path]>>
  ELSE <<>>

\* the result the loop of search builds from one match, <<>> when it is skipped
searchResult(a, m) ==
  CASE a = "RNF" ->
         pushRNF(a, m.m1, decodeEntities(a, trim(m.m3)), decodeEntities(a, trim(m.m4)),
                 absoluteUrl(a, m.m2), cleanHtmlTextRNF(m.m5))
    [] a = "RWN" ->
         pushRWN(a, LastSegment(m.m1), decodeEntities(a, trim(m.m4)),
                 absoluteUrl(a, m.m2), cleanHtmlTextRWN(m.m5), m.m1)
    [] OTHER ->
         \* MP1, MP2: match[1] starts with /manga/ by the pattern itself
         <<[id |-> m.m1, title |-> decodeEntities(a, trim(m.m4)), author |-> <<>>,
            coverUrl |-> m.m2, description |-> <<>>]>>

RECURSIVE searchResults(_, _)
searchResults(a, ms) ==
  IF ms = <<>> THEN <<>> ELSE searchResult(a, ms[1]) \o searchResults(a, Tail(ms))

\* the exported search: one result per row that has a .novel-title element;
\* that element is the <h3>, which has no href, so link is null and id is ''
RECURSIVE searchRowsEXP(_, _)
searchRowsEXP(doc, n) ==
  IF n > Len(doc) THEN <<>>
  ELSE (IF doc[n].kind = "notitle" THEN <<>>
        ELSE <<[id |-> <<>>, title |-> trim(BlockTitle(doc[n], n)),
                author |-> trim(BlockAuthor(n)),
                coverUrl |-> BlockCover(doc[n], n),
                description |-> trim(<<"D", DigitOf(n)>>)]>>)
       \o searchRowsEXP(doc, n + 1)

\* what search returns for a fetched document
parseSearch(a, doc) ==
  IF a = "EXP" THEN searchRowsEXP(doc, 1)
  ELSE searchResults(a, extractAllItems(a, SearchTokens(a, doc)))

(***************************************************************************)
(* Detail documents: what each field pattern of getBookDetails captures,   *)
(* Absent when the pattern does not match.                                 *)
(***************************************************************************)
ModuleAdapters == {"RNF", "RWN", "MP1", "MP2"}

\* chapter links as the site may list them: href path and link text
LinkSamples(a) ==
  CASE a \in {"RNF", "EXP"} ->
         {[href |-> <<"b1", "c1">>, text |-> <<"Ch", "1">>],
          [href |-> <<"b1", "c2">>, text |-> <<"Ch", "2">>]}
    [] a = "RWN" ->
         {[href |-> <<"novel", "b1", "c1">>, text |-> <<"Ch", "1">>],
          [href |-> <<"novel", "b1", "c2">>, text |-> <<"Ch", "2">>],
          [href |-> <<"novel", "b1_c3.html">>, text |-> <<"Ch", "3">>]}
    [] OTHER ->
         {[href |-> <<"chapters", "c1">>, text |-> <<"Ch", "1">>],
          [href |-> <<"chapters", "c2">>, text |-> <<"Ch", "2">>]}

\* chapter listings in document order, up to MaxChapters links
ChapterLists(a) == UNION {[1..n -> LinkSamples(a)] : n \in 0..MaxChapters}

TitleCaptures == {Absent, <<"T", " ">>}

AuthorCaptures == {Absent, <<"Au">>}

CoverCaptures == {Absent, <<"/", "cover">>, <<"http", "cover">>}

DescCaptures == {Absent, <<"De", "<", "br", ">", "sc">>}

\* the texts of the genre links; none when the list or its links are missing
GenreCaptures == {<<>>, <<<<"G1">>, <<"G2", " ">>>>}

StatusCaptures == {Absent, <<"Ongoing">>}

NovelIdCaptures == {Absent, <<"7">>, <<"4", "2">>}

\* The documents a successful request for a book page may return.  novelId
\* (data-novel-id) is looked for by RNF alone; a page that carries it has its
\* chapters behind the AJAX listing, so its inline list is empty.  type is
\* looked for by MP1 and MP2 alone, and they alone have a second pattern for
\* the author and for the cover (authorAlt, coverAlt); the pages tried with
\* a match of a second pattern are pages without chapter list.
DetailDocs(a) ==
  {d \in [title : TitleCaptures, author : AuthorCaptures, cover : CoverCaptures,
          authorAlt : IF a \in {"MP1", "MP2"} THEN {Absent, <<"Au2", " ">>} ELSE {Absent},
          coverAlt : IF a \in {"MP1", "MP2"} THEN {Absent, <<"/", "cover2">>} ELSE {Absent},
          desc : DescCaptures, genres : GenreCaptures, status : StatusCaptures,
          novelId : IF a = "RNF" THEN NovelIdCaptures ELSE {Absent},
          type : IF a \in {"MP1", "MP2"} THEN {Absent, <<"Manga">>} ELSE {Absent},
          chapters : ChapterLists(a)] :
     (d.novelId # Absent \/ d.authorAlt # Absent \/ d.coverAlt # Absent)
     => d.chapters = <<>>}

EmptyDetailDoc ==
  [title |-> Absent, author |-> Absent, cover |-> Absent,
   authorAlt |-> Absent, coverAlt |-> Absent, desc |-> Absent,
   genres |-> <<>>, status |-> Absent, novelId |-> Absent, type |-> Absent,
   chapters |-> <<>>]

\* the pages a server sends with a non-success status: an error page without
\* any of the fields, or (a soft error) a page that has a title
ErrorDetailDocs == {EmptyDetailDoc, [EmptyDetailDoc EXCEPT !.title = <<"T", " ">>]}

\* the AJAX chapter listings of RNF
ArchiveDocs(a) == {[chapters |-> l] : l \in ChapterLists(a)}

(***************************************************************************)
(* Chapter documents.                                                      *)
(***************************************************************************)
\* the inner HTML of a content container
ContentSamples ==
  {<<>>, <<" ">>, <<"a">>, <<"&", "nbsp", ";">>, <<"<", "br", ">">>,
   <<"a", "<", "br", "/", ">", "b", " ">>, <<"<", "p", ">", "a", "<", "/", "p", ">">>}

\* primary: #chr-content (RNF, EXP), #chapter-container (RWN);
\* fallback: .chapter-content, which RWN alone looks for
TextDocs(a) ==
  [primary : ContentSamples \cup {Absent},
   fallback : IF a = "RWN" THEN ContentSamples \cup {Absent} ELSE {Absent}]

\* An <img data-src> of a chapter page of MangaPill: inside a
\* <chapter-page><picture><source> wrapper ("page") or not ("bare"); its URL
\* is on the site's CDN under /chapters/<digits> ("cdn-ch"), under /chapters/
\* without digits ("cdn-chx"), elsewhere on the CDN ("cdn"), or foreign.
ImageKinds == [wrap : {"page", "bare"}, src : {"cdn-ch", "cdn-chx", "cdn", "other"}]

ImageDocs == UNION {[1..n -> ImageKinds] : n \in 0..MaxPages}

ContentDocs(a) == IF a \in {"MP1", "MP2"} THEN ImageDocs ELSE TextDocs(a)

ErrorContentDocs(a) ==
  IF a \in {"MP1", "MP2"} THEN {<<>>}
  ELSE {[primary |-> Absent, fallback |-> Absent], [primary |-> <<"a">>, fallback |-> Absent]}

(***************************************************************************)
(* The transport: a request ends by fetch raising, or by a response with   *)
(* a status and a body.                                                    *)
(***************************************************************************)
Throw == [k |-> "throw"]

Response(ok, body) == [k |-> "resp", ok |-> ok, body |-> body]

Ok(resp) == resp.k = "resp" /\ resp.ok

NotOk(resp) == resp.k = "resp" /\ ~resp.ok

\* what may come back for a request of operation op of adapter a;
\* stage is "page" (primary or alternate URL) or "archive" (RNF's listing)
Responses(a, op, stage) ==
  {Throw} \cup
  CASE op = "search" ->
         {Response(TRUE, d) : d \in SearchDocs} \cup {Response(FALSE, <<>>)}
           \cup {Response(FALSE, d) : d \in {x \in SearchDocs : Len(x) = 1}}
    [] op = "details" /\ stage = "page" ->
         {Response(TRUE, d) : d \in DetailDocs(a)}
           \cup {Response(FALSE, d) : d \in ErrorDetailDocs}
    [] op = "details" /\ stage = "archive" ->
         {Response(TRUE, d) : d \in ArchiveDocs(a)}
           \cup {Response(FALSE, [chapters |-> <<>>])}
           \cup {Response(FALSE, d) : d \in {x \in ArchiveDocs(a) : Len(x.chapters) = 1}}
    [] op = "content" ->
         {Response(TRUE, d) : d \in ContentDocs(a)}
           \cup {Response(FALSE, d) : d \in ErrorContentDocs(a)}

(***************************************************************************)
(* getBookDetails: from the fetched page to the record it returns.         *)
(***************************************************************************)
\* the chapter object pushed for one matched link, <<>> when it is skipped
chapterPush(a, href, title) ==
  CASE a = "RNF" ->
         IF href # <<>> /\ title # <<>> THEN <<[id |-> href, title |-> title]>> ELSE <<>>
    [] a = "RWN" ->
         IF LastSegment(href) # <<>> /\ title # <<>>
         THEN <<[id |-> LastSegment(href), title |-> title, _path |-> href]>>
         ELSE <<>>
    [] OTHER -> <<[id |-> href, title |-> title]>>

chapterRef(a, link) == chapterPush(a, link.href, decodeEntities(a, trim(link.text)))

RECURSIVE chapterRefs(_, _)
chapterRefs(a, links) ==
  IF links = <<>> THEN <<>> ELSE chapterRef(a, links[1]) \o chapterRefs(a, Tail(links))

\* Array.prototype.reverse
RECURSIVE reverse(_)
reverse(xs) == IF xs = <<>> THEN <<>> ELSE reverse(Tail(xs)) \o <<xs[1]>>

\* a slip: chapters.reverse() left out
parseChapters_NoReverse(a, links) == chapterRefs(a, links)

\* the chapters array built from a listing: MP1 and MP2 reverse it, RNF and
\* RWN keep the document order
parseChapters(a, links) ==
  IF a \in {"MP1", "MP2"} THEN reverse(chapterRefs(a, links)) ELSE chapterRefs(a, links)

RECURSIVE decodeEach(_, _)
decodeEach(a, xs) ==
  IF xs = <<>> THEN <<>> ELSE <<decodeEntities(a, trim(xs[1]))>> \o decodeEach(a, Tail(xs))

\* a slip: the capture used without the test for a missing match
fieldOr_NoDefault(a, capture, default) == decodeEntities(a, trim(capture))

\* match ? decodeEntities(match[0].trim()) : default
fieldOr(a, capture, default) ==
  IF capture = Absent THEN default ELSE decodeEntities(a, trim(capture))

\* a slip: the later pattern overrides the earlier one
firstMatch_Last(first, second) == IF second # Absent THEN second ELSE first

\* extractFirst(html, P1) ?? extractFirst(html, P2)
firstMatch(first, second) == IF first # Absent THEN first ELSE second

\* authorMatch and coverMatch of getBookDetails
authorMatch(a, doc) ==
  IF a \in {"MP1", "MP2"} THEN firstMatch(doc.author, doc.authorAlt) ELSE doc.author

coverMatch(a, doc) ==
  IF a \in {"MP1", "MP2"} THEN firstMatch(doc.cover, doc.coverAlt) ELSE doc.cover

\* a slip: the id cut down to its last segment, the way search cuts hrefs
detailsId_LastSegment(a, id) == LastSegment(id)

\* the id of the returned record: the argument, unchanged
detailsId(a, id) == id

\* the title of the returned record; the module adapters fall back on a
\* fixed string (the exported getBookDetails throws before it gets here)
detailsTitle(a, doc) ==
  IF a = "EXP" THEN trim(doc.title) ELSE fieldOr(a, doc.title, <<"Unknown Title">>)

\* the object getBookDetails returns for page doc and chapter listing links
detailsRecord(a, id, doc, links) ==
  CASE a \in {"RNF", "RWN"} ->
         [id |-> detailsId(a, id),
          title |-> detailsTitle(a, doc),
          author |-> fieldOr(a, doc.author, <<"Unknown Author">>),
          coverUrl |-> IF doc.cover = Absent THEN PlaceholderCover
                       ELSE absoluteUrl(a, doc.cover),
          description |-> IF doc.desc = Absent THEN <<"No description available.">>
                          ELSE cleanHtmlText(a, doc.desc),
          genres |-> decodeEach(a, doc.genres),
          status |-> fieldOr(a, doc.status, <<"Unknown">>),
          chapters |-> parseChapters(a, links)]
    [] a \in {"MP1", "MP2"} ->
         [id |-> detailsId(a, id),
          title |-> detailsTitle(a, doc),
          author |-> fieldOr(a, authorMatch(a, doc), <<"N/A">>),
          coverUrl |-> IF coverMatch(a, doc) = Absent THEN <<>> ELSE coverMatch(a, doc),
          description |-> fieldOr(a, doc.desc, <<"No description available.">>),
          genres |-> decodeEach(a, doc.genres),
          status |-> fieldOr(a, doc.status, <<"N/A">>),
          type |-> fieldOr(a, doc.type, <<"N/A">>),
          chapters |-> parseChapters(a, links)]
    [] a = "EXP" ->
         [id |-> detailsId(a, id),
          title |-> detailsTitle(a, doc),
          author |-> IF doc.author = Absent THEN <<"Unknown Author">> ELSE trim(doc.author),
          coverUrl |-> IF doc.cover = Absent THEN PlaceholderCover ELSE doc.cover,
          description |-> IF doc.desc = Absent THEN <<"No description available">>
                          ELSE trim(doc.desc)]

(***************************************************************************)
(* getContent: from the fetched page to the text or the page images.       *)
(***************************************************************************)
\* match[1].includes('mangapill')
OnCdn(img) == img.src \in {"cdn-ch", "cdn-chx", "cdn"}

\* the stricter test of the fallback loop: MP1 /\/chapters\/\d+/.test(..),
\* MP2 .includes('/chapters/')
LooksLikePage(a, img) ==
  OnCdn(img) /\ (IF a = "MP1" THEN img.src = "cdn-ch" ELSE img.src \in {"cdn-ch", "cdn-chx"})

\* the URLs a loop over the matches pushes: position n of the document
RECURSIVE pagesFrom(_, _, _, _)
pagesFrom(a, doc, n, pass) ==
  IF n > Len(doc) THEN <<>>
  ELSE (IF (pass = "primary" /\ doc[n].wrap = "page" /\ OnCdn(doc[n]))
           \/ (pass = "fallback" /\ LooksLikePage(a, doc[n]))
        THEN <<[src |-> doc[n].src, n |-> n]>> ELSE <<>>)
       \o pagesFrom(a, doc, n + 1, pass)

\* a slip: the fallback loop run whatever the primary loop pushed
pagesOrFallback_Merge(a, doc, pages) == pages \o pagesFrom(a, doc, 1, "fallback")

\* pages after the primary loop and, when that left it empty, the fallback loop
pagesOrFallback(a, doc, pages) ==
  IF pages = <<>> THEN pagesFrom(a, doc, 1, "fallback") ELSE pages

extractPages(a, doc) == pagesOrFallback(a, doc, pagesFrom(a, doc, 1, "primary"))

\* the container whose inner HTML is cleaned: the primary one, for RWN the
\* fallback one when the primary is missing or empty; Absent when none
contentHtml(a, doc) ==
  IF a = "EXP" THEN doc.primary
  ELSE IF doc.primary # Absent /\ doc.primary # <<>> THEN doc.primary
  ELSE IF a = "RWN" /\ doc.fallback # Absent /\ doc.fallback # <<>> THEN doc.fallback
  ELSE Absent

\* whether getContent throws on an empty payload (the exported one does not)
ThrowsOnEmpty(a) == a # "EXP"

(***************************************************************************)
(* The steps of an operation: from one await to the next.                  *)
(***************************************************************************)
Request(url, stage) == [k |-> "request", url |-> url, stage |-> stage]

Return(v) == [k |-> "return", v |-> v]

Raise == [k |-> "raise"]

NoBook == [given |-> FALSE, id |-> <<>>]

Book(id) == [given |-> TRUE, id |-> id]

\* search up to its fetch.  The module adapters build the URL before their
\* try block, the exported search inside it.
searchRequest(a, u) ==
  IF u.ok THEN Request(u.url, "primary")
  ELSE IF a = "EXP" THEN Return(<<>>) ELSE Raise

searchStart(a, q) == searchRequest(a, searchUrl(a, q))

\* getBookDetails up to its first fetch
detailsStart(a, id) == Request(bookUrl(a, id), "primary")

\* getContent up to its first fetch; RWN needs book.id
contentStart(a, id, book) ==
  IF a = "RWN" /\ (~book.given \/ book.id = <<>>) THEN Raise
  ELSE Request(chapterUrl(a, id, book), "primary")

\* search after its fetch: [] when fetch raised or the status is not ok (the
\* exported search does not look at the status), else the parsed results
searchAfterFetch(a, resp) ==
  IF resp = Throw THEN Return(<<>>)
  ELSE IF a # "EXP" /\ ~resp.ok THEN Return(<<>>)
  ELSE Return(parseSearch(a, resp.body))

\* a slip: the listing requested for every page, with the slug when the page
\* has no numeric id
detailsFromPage_AlwaysArchive(a, id, doc) ==
  IF a = "EXP" /\ doc.title = Absent THEN Raise
  ELSE IF a = "RNF"
       THEN Request(chaptersUrl(a, IF doc.novelId # Absent THEN doc.novelId ELSE id),
                    "archive")
  ELSE Return(detailsRecord(a, id, doc, doc.chapters))

\* getBookDetails from response.text() on
detailsFromPage(a, id, doc) ==
  IF a = "EXP" /\ doc.title = Absent THEN Raise
  ELSE IF a = "RNF" /\ doc.novelId # Absent
       THEN Request(chaptersUrl(a, doc.novelId), "archive")
  ELSE Return(detailsRecord(a, id, doc, doc.chapters))

\* a slip: fetch raising handled like a non-success status
detailsAfterPrimary_RetryOnThrow(a, id, resp) ==
  IF a = "RNF" /\ (resp = Throw \/ ~resp.ok) THEN Request(fallbackUrl(a, id), "alternate")
  ELSE IF resp = Throw THEN Raise
  ELSE IF a = "EXP" \/ resp.ok THEN detailsFromPage(a, id, resp.body)
  ELSE Raise

\* getBookDetails after its first fetch
detailsAfterPrimary(a, id, resp) ==
  IF resp = Throw THEN Raise
  ELSE IF a = "EXP" \/ resp.ok THEN detailsFromPage(a, id, resp.body)
  ELSE IF a = "RNF" THEN Request(fallbackUrl(a, id), "alternate")
  ELSE Raise

\* getBookDetails of RNF after the fetch of fallbackUrl: the result is
\* assigned to the const binding response, which throws a TypeError
detailsAfterAlternate(a, id, resp) == Raise

\* a slip: a non-success status of the listing fails the call
detailsAfterArchive_FailOnStatus(a, id, doc, resp) ==
  IF resp = Throw THEN Raise
  ELSE IF ~resp.ok THEN Raise
  ELSE Return(detailsRecord(a, id, doc, resp.body.chapters))

\* getBookDetails of RNF after the fetch of chaptersUrl
detailsAfterArchive(a, id, doc, resp) ==
  IF resp = Throw THEN Raise
  ELSE IF ~resp.ok THEN Return(detailsRecord(a, id, doc, <<>>))
  ELSE Return(detailsRecord(a, id, doc, resp.body.chapters))

\* getContent from response.text() on
\* if (pages.length === 0) throw / if (!content) throw, else return
returnPayload(a, payload) ==
  IF payload = <<>> /\ ThrowsOnEmpty(a) THEN Raise ELSE Return(payload)

cleanedContent(a, html) ==
  IF html = Absent THEN Raise ELSE returnPayload(a, cleanHtmlText(a, html))

contentFromPage(a, doc) ==
  IF a \in {"MP1", "MP2"} THEN returnPayload(a, extractPages(a, doc))
  ELSE cleanedContent(a, contentHtml(a, doc))

\* a slip: the second attempt made when fetch raised as well
contentAfterPrimary_RetryOnThrow(a, id, resp) ==
  IF a = "RNF" /\ (resp = Throw \/ ~resp.ok) THEN Request(fallbackUrl(a, id), "alternate")
  ELSE IF resp = Throw THEN Raise
  ELSE IF a = "EXP" \/ resp.ok THEN contentFromPage(a, resp.body)
  ELSE Raise

\* a slip: no second attempt without .html
contentAfterPrimary_NoAlternate(a, id, resp) ==
  IF resp = Throw THEN Raise
  ELSE IF a = "EXP" \/ resp.ok THEN contentFromPage(a, resp.body)
  ELSE Raise

\* getContent after its first fetch
contentAfterPrimary(a, id, resp) ==
  IF resp = Throw THEN Raise
  ELSE IF a = "EXP" \/ resp.ok THEN contentFromPage(a, resp.body)
  ELSE IF a = "RNF" THEN Request(fallbackUrl(a, id), "alternate")
  ELSE Raise

\* getContent of RNF after the fetch of fallbackUrl
contentAfterAlternate(a, id, resp) ==
  IF resp = Throw THEN Raise
  ELSE IF ~resp.ok THEN Raise
  ELSE contentFromPage(a, resp.body)

(***************************************************************************)
(* Calls side by side.  Every handler is an async function: it runs up to  *)
(* an await fetch and is resumed with the response, and in between another *)
(* call on the same module object may start or be resumed.  What a call    *)
(* holds across an await are the locals of its own activation.             *)
(***************************************************************************)
Slots == {1, 2}

\* the locals of one activation of a handler
IdleCall ==
  [op |-> "none", arg |-> <<>>, book |-> NoBook, pc |-> "idle", requests |-> <<>>,
   responses |-> <<>>, outcome |-> "none", result |-> <<>>, mixed |-> FALSE]

InFlight(c) == c.pc \in {"primary", "alternate", "archive"}

\* the calls a host makes side by side
ParCalls(a) ==
  {[op |-> "search", arg |-> q, book |-> NoBook] : q \in {<<>>, <<"a">>, <<"hi">>}}
    \cup {[op |-> "details", arg |-> id, book |-> NoBook] :
            id \in {BlockHref(a, 1), BlockHref(a, 2)}}
    \cup {[op |-> "content", arg |-> LastSegment(l.href), book |-> Book(<<"b1">>)] :
            l \in IF a = "RWN" THEN LinkSamples(a) ELSE {}}
    \cup {[op |-> "content", arg |-> l.href, book |-> NoBook] :
            l \in IF a = "RWN" THEN {} ELSE LinkSamples(a)}

\* the documents of the remote site in the side-by-side runs: a sample of the
\* bodies of Responses
SampleBody(a, op, stage, body) ==
  CASE op = "search" -> Len(body) <= 1 /\ \A n \in 1..Len(body) : body[n].cover = "rel"
    [] op = "details" /\ stage = "page" ->
         /\ body.author = Absent /\ body.cover = Absent /\ body.desc = Absent
         /\ body.authorAlt = Absent /\ body.coverAlt = Absent
         /\ body.genres = <<>> /\ body.status = Absent /\ body.type = Absent
         /\ Len(body.chapters) <= 1
    [] op = "details" /\ stage = "archive" -> Len(body.chapters) <= 1
    [] op = "content" /\ a \in {"MP1", "MP2"} ->
         Len(body) <= 1 /\ \A n \in 1..Len(body) : body[n].src \in {"cdn-ch", "other"}
    [] OTHER ->
         /\ body.primary \in {Absent, <<"a">>}
         /\ body.fallback \in {Absent, <<"a", "<", "br", "/", ">", "b", " ">>}

ParResponses(a, op, stage) ==
  {r \in Responses(a, op, stage) : r = Throw \/ SampleBody(a, op, stage, r.body)}

\* what the site has answered for url so far, to any call
Served(cs, url) ==
  {cs[jk[1]].responses[jk[2]] :
     jk \in {x \in Slots \X (1..3) :
               x[2] <= Len(cs[x[1]].responses) /\ cs[x[1]].requests[x[2]] = url}}

\* the handler of call c up to its first await
startCall(a, c) ==
  CASE c.op = "search" -> searchStart(a, c.arg)
    [] c.op = "details" -> detailsStart(a, c.arg)
    [] c.op = "content" -> contentStart(a, c.arg, c.book)

\* a slip: html kept in a variable of the module, which the call resumed
\* last has overwritten
heldPage_Shared(cs, i) ==
  IF cs[3 - i].op = "details" /\ Len(cs[3 - i].responses) >= 1 /\ Ok(cs[3 - i].responses[1])
  THEN cs[3 - i].responses[1].body
  ELSE cs[i].responses[1].body

\* const html = await response.text(): the page call i fetched, a local of
\* its own activation
heldPage(cs, i) == cs[i].responses[1].body

\* the handler of a call resumed at stage with resp; html is the page it holds
resumeCall(a, c, stage, html, resp) ==
  CASE c.op = "search" -> searchAfterFetch(a, resp)
    [] c.op = "details" /\ stage = "primary" -> detailsAfterPrimary(a, c.arg, resp)
    [] c.op = "details" /\ stage = "alternate" -> detailsAfterAlternate(a, c.arg, resp)
    [] c.op = "details" /\ stage = "archive" -> detailsAfterArchive(a, c.arg, html, resp)
    [] c.op = "content" /\ stage = "primary" -> contentAfterPrimary(a, c.arg, resp)
    [] c.op = "content" /\ stage = "alternate" -> contentAfterAlternate(a, c.arg, resp)

\* the activation after step
advance(c, step) ==
  IF step.k = "request"
  THEN [c EXCEPT !.requests = Append(@, step.url), !.pc = step.stage]
  ELSE [c EXCEPT !.pc = "done",
                 !.outcome = IF step.k = "return" THEN "returned" ELSE "raised",
                 !.result = IF step.k = "return" THEN step.v ELSE <<>>]

(***************************************************************************)
(* The state machine: one adapter instance and the call in progress.       *)
(***************************************************************************)
VARIABLES
  adapter,    \* the adapter this instance is
  op,         \* the operation called: "none", "search", "details", "content"
  arg,        \* its first argument: the query or the identifier
  book,       \* the second argument of getContent
  argFrom,    \* where the caller took arg from: "caller", "search", "details"
  argPath,    \* for a chapter taken from a listing, the path listed for it
  pc,         \* "idle", "primary", "alternate", "archive", "done"
  requests,   \* the URLs the call has requested, in order
  responses,  \* what came back for each
  outcome,    \* "none", "returned", "raised"
  result,     \* the value returned
  calls,      \* the calls in progress side by side on the adapter (SpecPar)
  probe,      \* a text and what the helpers applied to it returned (SpecText)
  scan        \* a call of extractAll: pattern, document, lastIndex, matches (SpecScan)

vars == <<adapter, op, arg, book, argFrom, argPath, pc, requests, responses,
          outcome, result, calls, probe, scan>>

Queries == UNION {[1..n -> QueryUnits] : n \in 0..MaxQueryLen}

\* identifiers a caller may pass without having got them from the adapter
BookIds(a) == {BlockHref(a, 1)} \cup {IF a = "RWN" THEN <<"b1">> ELSE BlockHref(a, 1)}

ChapterIds(a) ==
  {IF a = "RWN" THEN LastSegment(l.href) ELSE l.href : l \in LinkSamples(a)}

\* the path the listing gave for a chapter of a returned record
ListedPath(a, ch) == IF a = "RWN" THEN ch._path ELSE ch.id

Init ==
  /\ adapter \in Adapters
  /\ op = "none" /\ arg = <<>> /\ book = NoBook
  /\ argFrom = "caller" /\ argPath = <<>>
  /\ pc = "idle" /\ requests = <<>> /\ responses = <<>>
  /\ outcome = "none" /\ result = <<>>
  /\ calls = [i \in Slots |-> IdleCall]
  /\ probe = NoProbe
  /\ scan = NoScan

\* the effect of a step on the call in progress
Take(step, reqs, resps) ==
  /\ responses' = resps
  /\ IF step.k = "request"
     THEN /\ requests' = Append(reqs, step.url)
          /\ pc' = step.stage /\ outcome' = "none" /\ result' = <<>>
     ELSE /\ requests' = reqs /\ pc' = "done"
          /\ outcome' = (IF step.k = "return" THEN "returned" ELSE "raised")
          /\ result' = (IF step.k = "return" THEN step.v ELSE <<>>)

\* a call begins (when no call is in progress)
Begin(o, x, b, from, path, step) ==
  /\ op' = o /\ arg' = x /\ book' = b /\ argFrom' = from /\ argPath' = path
  /\ UNCHANGED <<adapter, calls, probe, scan>>
  /\ Take(step, <<>>, <<>>)

CallSearch ==
  /\ pc \in {"idle", "done"}
  /\ \E q \in Queries :
       Begin("search", q, NoBook, "caller", <<>>, searchStart(adapter, q))

CallDetails ==
  /\ pc \in {"idle", "done"}
  /\ \E id \in BookIds(adapter) :
       Begin("details", id, NoBook, "caller", <<>>, detailsStart(adapter, id))

\* getBookDetails(r.id) for a result r of the search that has just returned
CallDetailsOfResult ==
  /\ pc = "done" /\ op = "search" /\ outcome = "returned"
  /\ \E i \in 1..Len(result) :
       Begin("details", result[i].id, NoBook, "search", <<>>,
             detailsStart(adapter, result[i].id))

CallContent ==
  /\ pc \in {"idle", "done"}
  /\ \E id \in ChapterIds(adapter), b \in {NoBook, Book(<<"b1">>)} :
       Begin("content", id, b, "caller", <<>>, contentStart(adapter, id, b))

\* getContent(chapter.id, details) for a chapter of the record that
\* getBookDetails has just returned
ContentOfChapter(ch, b) ==
  Begin("content", ch.id, b, "details", ListedPath(adapter, ch),
        contentStart(adapter, ch.id, b))

CallContentOfChapter ==
  /\ pc = "done" /\ op = "details" /\ outcome = "returned" /\ adapter # "EXP"
  /\ \E i \in 1..Len(result.chapters) :
       ContentOfChapter(result.chapters[i], Book(result.id))

\* the continuation of the call once the awaited request has ended with resp
Continue(resp) ==
  CASE op = "search" -> searchAfterFetch(adapter, resp)
    [] op = "details" /\ pc = "primary" -> detailsAfterPrimary(adapter, arg, resp)
    [] op = "details" /\ pc = "alternate" -> detailsAfterAlternate(adapter, arg, resp)
    [] op = "details" /\ pc = "archive" ->
         detailsAfterArchive(adapter, arg, responses[1].body, resp)
    [] op = "content" /\ pc = "primary" -> contentAfterPrimary(adapter, arg, resp)
    [] op = "content" /\ pc = "alternate" -> contentAfterAlternate(adapter, arg, resp)

Resume(kind) ==
  /\ \E resp \in Responses(adapter, op, kind) :
       Take(Continue(resp), requests, Append(responses, resp))
  /\ UNCHANGED <<adapter, op, arg, book, argFrom, argPath, calls, probe, scan>>

PrimaryResponds ==
  /\ pc = "primary"
  /\ Resume("page")

AlternateResponds ==
  /\ pc = "alternate"
  /\ Resume("page")

ArchiveResponds ==
  /\ pc = "archive"
  /\ Resume("archive")

Next ==
  \/ CallSearch
  \/ CallDetails
  \/ CallDetailsOfResult
  \/ CallContent
  \/ CallContentOfChapter
  \/ PrimaryResponds
  \/ AlternateResponds
  \/ ArchiveResponds

Spec == Init /\ [][Next]_vars

(***************************************************************************)
(* The same adapter with two calls side by side, against a site whose      *)
(* documents do not change: a URL requested again is answered as before.   *)
(***************************************************************************)
oneCall == <<op, arg, book, argFrom, argPath, pc, requests, responses, outcome, result>>

\* call i begins
BeginCall(i, c) ==
  calls' = [calls EXCEPT ![i] = advance([IdleCall EXCEPT !.op = c.op, !.arg = c.arg,
                                                          !.book = c.book],
                                        startCall(adapter, c))]

ParCall ==
  /\ \E i \in Slots : calls[i].pc = "idle" /\ \E c \in ParCalls(adapter) : BeginCall(i, c)
  /\ UNCHANGED <<adapter, oneCall, probe, scan>>

\* the response resp reaches call i, which goes on to its next await or its end
ResumeCall(i, resp) ==
  calls' = [calls EXCEPT ![i] =
              advance([calls[i] EXCEPT !.responses = Append(@, resp),
                                       !.mixed = @ \/ InFlight(calls[3 - i])],
                      resumeCall(adapter, calls[i], calls[i].pc, heldPage(calls, i), resp))]

Answers(i) ==
  {r \in ParResponses(adapter, calls[i].op,
                      IF calls[i].pc = "archive" THEN "archive" ELSE "page") :
     Served(calls, calls[i].requests[Len(calls[i].requests)]) \subseteq {r}}

ParResponds ==
  /\ \E i \in Slots : InFlight(calls[i]) /\ \E r \in Answers(i) : ResumeCall(i, r)
  /\ UNCHANGED <<adapter, oneCall, probe, scan>>

NextPar ==
  \/ ParCall
  \/ ParResponds

SpecPar == Init /\ [][NextPar]_vars

(***************************************************************************)
(* The helpers on their own: a text (or undefined) and the helpers applied *)
(* to it one after the other.  probe.vals is the input followed by what    *)
(* each application returned, probe.fns names the applications.            *)
(***************************************************************************)
InitText ==
  /\ adapter \in ModuleAdapters
  /\ op = "none" /\ arg = <<>> /\ book = NoBook
  /\ argFrom = "caller" /\ argPath = <<>>
  /\ pc = "idle" /\ requests = <<>> /\ responses = <<>>
  /\ outcome = "none" /\ result = <<>>
  /\ calls = [i \in Slots |-> IdleCall]
  /\ probe \in {[NoProbe EXCEPT !.vals = <<x>>] : x \in Texts \cup {Undefined}}
  /\ scan = NoScan

Latest == probe.vals[Len(probe.vals)]

\* helper fn has returned, or thrown
Applied(fn, r) ==
  probe' = [fns |-> Append(probe.fns, fn),
            vals |-> Append(probe.vals, IF r.k = "return" THEN r.v ELSE <<>>),
            raised |-> r.k = "raise"]

ApplyEncode ==
  /\ probe.fns = <<>> /\ Latest # Undefined
  /\ \E form \in EncodeForms(adapter) :
       Applied(form, [k |-> "return", v |-> encode(adapter, form, Latest)])
  /\ UNCHANGED <<adapter, oneCall, calls, scan>>

ApplyDecode ==
  /\ ~probe.raised
  /\ probe.fns = <<>> \/ (Len(probe.fns) = 1 /\ probe.fns[1] \in EncodeForms(adapter))
  /\ Applied("decode", decodeEntitiesCall(adapter, Latest))
  /\ UNCHANGED <<adapter, oneCall, calls, scan>>

ApplyClean ==
  /\ ~probe.raised /\ adapter \in {"RNF", "RWN"}
  /\ probe.fns \in {<<>>, <<"clean">>}
  /\ Applied("clean", cleanHtmlTextCall(adapter, Latest))
  /\ UNCHANGED <<adapter, oneCall, calls, scan>>

NextText ==
  \/ ApplyEncode
  \/ ApplyDecode
  \/ ApplyClean

SpecText == InitText /\ [][NextText]_vars

(***************************************************************************)
(* extractAll(html, regex) step by step: the loop                          *)
(*   while ((match = regex.exec(html)) !== null) matches.push(match);      *)
(* on a regex whose lastIndex is 0 when the call begins.                   *)
(***************************************************************************)
InitScan ==
  /\ adapter \in ModuleAdapters
  /\ op = "none" /\ arg = <<>> /\ book = NoBook
  /\ argFrom = "caller" /\ argPath = <<>>
  /\ pc = "idle" /\ requests = <<>> /\ responses = <<>>
  /\ outcome = "none" /\ result = <<>>
  /\ calls = [i \in Slots |-> IdleCall]
  /\ probe = NoProbe
  /\ scan \in {[NoScan EXCEPT !.pc = "loop", !.pat = p, !.doc = d] :
                 p \in ScanPatterns, d \in ScanDocs}

\* part_000 alone:  if (!html) return matches;
ReturnOnEmpty ==
  /\ scan.pc = "loop" /\ adapter = "RWN" /\ scan.doc = <<>>
  /\ scan' = [scan EXCEPT !.pc = "returned"]
  /\ UNCHANGED <<adapter, oneCall, calls, probe>>

\* exec returned the match at index: it is pushed and the loop goes on
Pushed(index) ==
  scan' = [scan EXCEPT
             !.matches = Push(scan.matches,
                              [index |-> index,
                               len |-> MatchLenAt(scan.pat, scan.doc, index)]),
             !.lastIndex = ExecLastIndex(scan.pat, scan.doc, scan.lastIndex, index),
             !.turn = 1 - scan.turn]

ExecMatches ==
  /\ scan.pc = "loop" /\ ~(adapter = "RWN" /\ scan.doc = <<>>)
  /\ ExecIndex(scan.pat, scan.doc, scan.lastIndex) >= 0
  /\ Pushed(ExecIndex(scan.pat, scan.doc, scan.lastIndex))
  /\ UNCHANGED <<adapter, oneCall, calls, probe>>

\* exec returned null (and reset lastIndex): the loop ends, matches is returned
ExecNull ==
  /\ scan.pc = "loop" /\ ~(adapter = "RWN" /\ scan.doc = <<>>)
  /\ ExecIndex(scan.pat, scan.doc, scan.lastIndex) < 0
  /\ scan' = [scan EXCEPT !.pc = "returned", !.lastIndex = 0]
  /\ UNCHANGED <<adapter, oneCall, calls, probe>>

NextScan ==
  \/ ReturnOnEmpty
  \/ ExecMatches
  \/ ExecNull

\* the loop is run to its end if it has one: nothing else is scheduled
\* between two iterations
SpecScan == InitScan /\ [][NextScan]_vars /\ WF_vars(NextScan)
(***************************************************************************)
(* Properties.                                                             *)
(***************************************************************************)
Done == pc = "done"

\* C1: in RNF's getBookDetails, when the primary request ends with a
\* non-success status and the alternate one with success, the operation does
\* not fail and the record it returns is the one extracted from the body of
\* the alternate response.
C1_AlternateSuccessReturnsDetails ==
  (adapter = "RNF" /\ op = "details" /\ Len(responses) >= 2
     /\ NotOk(responses[1]) /\ Ok(responses[2]))
  => /\ outcome # "raised"
     /\ outcome = "returned" => result.title = detailsTitle(adapter, responses[2].body)

\* C2: in RNF's getContent, after a non-success status of the primary request
\* exactly one alternate request (the same path without .html) is issued, and
\* when it ends with success and its body holds chapter text, that text,
\* cleaned, is returned.
C2_ContentAlternateRecovers ==
  (adapter = "RNF" /\ op = "content" /\ Len(responses) >= 1 /\ NotOk(responses[1]))
  => /\ requests = <<Url(Origin("RNF"), arg, ".html", <<>>), Url(Origin("RNF"), arg, "", <<>>)>>
     /\ Len(responses) = 2 => Done
     /\ (Len(responses) = 2 /\ Ok(responses[2])
           /\ responses[2].body.primary \notin {Absent, <<>>}
           /\ cleanHtmlTextRNF(responses[2].body.primary) # <<>>)
        => /\ outcome = "returned"
           /\ result = cleanHtmlTextRNF(responses[2].body.primary)

C2_Witness ==
  /\ adapter = "RNF" /\ op = "content" /\ Len(responses) = 2
  /\ NotOk(responses[1]) /\ Ok(responses[2])
  /\ outcome = "returned" /\ result = <<"a", "\n", "b">>

C4_AllNonSuccessRaises ==
  (op = "details" /\ Done /\ Len(responses) >= 1
     /\ \A i \in 1..Len(responses) : NotOk(responses[i]))
  => outcome = "raised"

\* C5: getBookDetails raises when the page was fetched with success and no
\* title pattern matches it.
C5_MissingTitleRaises ==
  (op = "details" /\ Done /\ Ok(responses[1]) /\ responses[1].body.title = Absent)
  => outcome = "raised"

\* C6: search never raises, and it returns an empty sequence when the URL
\* could not be built, when fetch raised, when the status is not a success
\* and when the body holds no result block.
C6_SearchNeverRaises ==
  (op = "search" /\ Done)
  => /\ outcome = "returned"
     /\ (requests = <<>> \/ ~Ok(responses[1]) \/ responses[1].body = <<>>) => result = <<>>

\* C7: getContent never returns an empty payload.
C7_ContentNeverEmpty ==
  (op = "content" /\ outcome = "returned") => result # <<>>

\* the blocks of a search document that are well-formed, in document order
RECURSIVE OkBlocksFrom(_, _)
OkBlocksFrom(doc, n) ==
  IF n > Len(doc) THEN <<>>
  ELSE (IF doc[n].kind = "ok" THEN <<n>> ELSE <<>>) \o OkBlocksFrom(doc, n + 1)

MissingTitle(doc) == {n \in 1..Len(doc) : doc[n].kind = "notitle"}

LastOf(s) == IF s = <<>> THEN "none" ELSE s[Len(s)]

\* result r is built from the fields of block n alone
BuiltFromBlock(a, r, n) ==
  /\ r.title = <<"T", DigitOf(n)>>
  /\ LastOf(r.coverUrl) = DigitOf(n)
  /\ a # "EXP" => LastOf(r.id) = BlockSlug(n)
  /\ a \in {"RNF", "EXP"} => r.author = BlockAuthor(n)
  /\ a \in {"RNF", "RWN", "EXP"} => r.description[2] = DigitOf(n)

\* C8: for a document of well-formed blocks and one block without a title,
\* search returns one result per well-formed block, in order, each built from
\* the fields of its own block.
C8_OneResultPerWellFormedBlock ==
  (op = "search" /\ outcome = "returned" /\ Len(responses) = 1 /\ Ok(responses[1])
     /\ Cardinality(MissingTitle(responses[1].body)) = 1
     /\ \A n \in 1..Len(responses[1].body) : responses[1].body[n].kind # "blank")
  => /\ Len(result) = Len(OkBlocksFrom(responses[1].body, 1))
     /\ \A i \in 1..Len(result) :
          i <= Len(OkBlocksFrom(responses[1].body, 1))
          /\ BuiltFromBlock(adapter, result[i], OkBlocksFrom(responses[1].body, 1)[i])

\* C9: for a chapter of the record getBookDetails(b) returned, getContent
\* (chapter.id, details) requests the origin followed by the path the listing
\* gave for that chapter (RWN, MP1, MP2: the adapters with one content URL).
C9_ChapterIdRoundTrip ==
  (op = "content" /\ argFrom = "details" /\ adapter \in {"RWN", "MP1", "MP2"})
  => /\ outcome # "raised" => Len(requests) >= 1
     /\ Len(requests) >= 1 => requests[1] = Url(Origin(adapter), argPath, "", <<>>)

\* C10: for a result r of search, a successful getBookDetails(r.id) returns a
\* record whose id is r.id.
C10_DetailsKeepsSearchId ==
  (op = "details" /\ argFrom = "search" /\ outcome = "returned") => result.id = arg

C10_Witness ==
  /\ op = "details" /\ argFrom = "search" /\ outcome = "returned"
  /\ adapter = "MP1" /\ result.id = <<"manga", "2", "b2">>

\* C11: for MangaPill, the chapters of the record getBookDetails returns are
\* the chapter links of the listing in reverse document order, one chapter
\* per link: chapter i is link (length + 1 - i).
C11_ChaptersReversed ==
  (adapter \in {"MP1", "MP2"} /\ op = "details" /\ outcome = "returned")
  => /\ Len(result.chapters) = Len(responses[1].body.chapters)
     /\ \A i \in 1..Len(result.chapters) :
          /\ result.chapters[i].id
               = responses[1].body.chapters[Len(result.chapters) + 1 - i].href
          /\ result.chapters[i].title
               = responses[1].body.chapters[Len(result.chapters) + 1 - i].text
     /\ reverse(result.chapters)
          = [i \in 1..Len(result.chapters) |->
               [id |-> responses[1].body.chapters[i].href,
                title |-> responses[1].body.chapters[i].text]]

C11_Witness ==
  /\ adapter = "MP1" /\ op = "details" /\ outcome = "returned"
  /\ Len(responses[1].body.chapters) = 2
  /\ responses[1].body.chapters[1].href = <<"chapters", "c1">>
  /\ responses[1].body.chapters[2].href = <<"chapters", "c2">>
  /\ result.chapters[1].id = <<"chapters", "c2">>
  /\ result.chapters[2].id = <<"chapters", "c1">>

\* an absolute URL: it starts with a scheme (an origin, a CDN address, the
\* placeholder)
IsAbsoluteUrl(u) ==
  u # <<>> /\ (u[1] = "http" \/ u = PlaceholderCover
                 \/ u[1] \in {Origin(a) : a \in Adapters})

\* C12: every cover that search or getBookDetails extracted and returned is
\* an absolute URL, in every adapter.
C12_CoversAbsolute ==
  /\ (op = "search" /\ outcome = "returned")
     => \A i \in 1..Len(result) : IsAbsoluteUrl(result[i].coverUrl)
  /\ (op = "details" /\ outcome = "returned" /\ Len(responses) >= 1
        /\ coverMatch(adapter, responses[1].body) # Absent)
     => IsAbsoluteUrl(result.coverUrl)

\* the fixed value each adapter documents for a missing optional field
DefaultOf(a, field) ==
  CASE field = "author" ->
         IF a \in {"MP1", "MP2"} THEN <<"N/A">> ELSE <<"Unknown Author">>
    [] field = "status" -> IF a \in {"MP1", "MP2"} THEN <<"N/A">> ELSE <<"Unknown">>
    [] field = "description" ->
         IF a = "EXP" THEN <<"No description available">>
         ELSE <<"No description available.">>
    [] field = "coverUrl" -> IF a \in {"MP1", "MP2"} THEN <<>> ELSE PlaceholderCover
    [] field = "genres" -> <<>>

\* the value a present capture gives the field
ExtractedOf(a, field, capture) ==
  CASE field \in {"author", "status"} ->
         IF a = "EXP" THEN trim(capture) ELSE decodeEntities(a, trim(capture))
    [] field = "description" ->
         IF a \in {"RNF", "RWN"} THEN cleanHtmlText(a, capture)
         ELSE IF a = "EXP" THEN trim(capture)
         ELSE decodeEntities(a, trim(capture))
    [] field = "coverUrl" ->
         IF a \in {"RNF", "RWN"} THEN absoluteUrl(a, capture) ELSE capture
    [] field = "genres" -> decodeEach(a, capture)

\* the field of record r is the default when nothing was captured for it and
\* the extracted value otherwise
FieldResolved(a, r, field, capture, missing) ==
  r[field] = IF capture = missing THEN DefaultOf(a, field)
             ELSE ExtractedOf(a, field, capture)

\* the call met no failure other than missing optional fields
OnlyOptionalMissing ==
  /\ Len(responses) >= 1 /\ Ok(responses[1])
  /\ \A i \in 1..Len(responses) : responses[i] # Throw
  /\ adapter = "EXP" => responses[1].body.title # Absent

\* C13: when optional fields (author, description, genres, status, cover) are
\* missing from a successfully fetched page, getBookDetails returns, each
\* missing field has its fixed default and every other field has the value
\* extracted for it.
C13_OptionalFieldsDefault ==
  (op = "details" /\ Done /\ OnlyOptionalMissing)
  => /\ outcome = "returned"
     /\ FieldResolved(adapter, result, "author",
                      authorMatch(adapter, responses[1].body), Absent)
     /\ FieldResolved(adapter, result, "description", responses[1].body.desc, Absent)
     /\ FieldResolved(adapter, result, "coverUrl",
                      coverMatch(adapter, responses[1].body), Absent)
     /\ adapter # "EXP"
        => /\ FieldResolved(adapter, result, "status", responses[1].body.status, Absent)
           /\ FieldResolved(adapter, result, "genres", responses[1].body.genres, <<>>)
     /\ result.title = detailsTitle(adapter, responses[1].body)
     /\ result.id = arg

C13_Witness ==
  /\ adapter = "RWN" /\ op = "details" /\ outcome = "returned"
  /\ responses[1].body.author = Absent /\ result.author = <<"Unknown Author">>
  /\ responses[1].body.genres = <<>> /\ result.genres = <<>>
  /\ responses[1].body.status = <<"Ongoing">> /\ result.status = <<"Ongoing">>
  /\ responses[1].body.cover = <<"/", "cover">>
  /\ result.coverUrl = <<"https://www.readwn.com", "/", "cover">>

\* the step a handler is at after the first k responses of call c, run on
\* its own
RECURSIVE stepAlone(_, _, _)
stepAlone(a, c, k) ==
  IF k = 0 THEN startCall(a, c)
  ELSE resumeCall(a, c, stepAlone(a, c, k - 1).stage, c.responses[1].body,
                  c.responses[k])

\* the finished call c ended the way step does
EndedAs(c, step) ==
  /\ step.k # "request"
  /\ c.outcome = (IF step.k = "return" THEN "returned" ELSE "raised")
  /\ step.k = "return" => c.result = step.v

SameCall(c, d) == c.op = d.op /\ c.arg = d.arg /\ c.book = d.book

\* C14: with two calls side by side on one adapter and unchanged documents,
\* each finished call has the result the same call has run on its own from
\* its arguments and the documents it was answered with, and two calls with
\* the same arguments end with the same requests, outcome and result.
C14_CallsIndependent ==
  /\ \A i \in Slots :
       calls[i].pc = "done"
       => EndedAs(calls[i], stepAlone(adapter, calls[i], Len(calls[i].responses)))
  /\ (calls[1].pc = "done" /\ calls[2].pc = "done" /\ SameCall(calls[1], calls[2]))
     => /\ calls[1].requests = calls[2].requests
        /\ calls[1].responses = calls[2].responses
        /\ calls[1].outcome = calls[2].outcome
        /\ calls[1].result = calls[2].result

C14_Witness ==
  /\ adapter = "RNF" /\ calls[1].pc = "done" /\ calls[2].pc = "done"
  /\ calls[1].mixed /\ calls[2].mixed
  /\ calls[1].op = "details" /\ calls[2].op = "details"
  /\ calls[1].arg # calls[2].arg
  /\ Len(calls[1].responses) = 2 /\ Len(calls[2].responses) = 2
  /\ calls[1].outcome = "returned" /\ calls[2].outcome = "returned"
  /\ calls[1].result.title # calls[2].result.title

\* C15: decode(encode(s)) = s for every text s, whichever form of reference
\* encode writes.
C15_DecodeEncodeRoundTrip ==
  (Len(probe.fns) = 2 /\ probe.fns[1] \in {"named", "dec", "hex"}
     /\ probe.fns[2] = "decode")
  => ~probe.raised /\ probe.vals[3] = probe.vals[1]

\* the references of the claim and the character of each (for &nbsp; the
\* no-break space, or the plain space the translate tables give)
ReferenceChars ==
  {<<<<"&", "amp", ";">>, {"&"}>>, <<<<"&", "lt", ";">>, {"<"}>>,
   <<<<"&", "apos", ";">>, {"'"}>>, <<<<"&", "nbsp", ";">>, {"u00a0", " "}>>,
   <<<<"&", "#", "3", "8", ";">>, {"&"}>>, <<<<"&", "#", "x", "2", "6", ";">>, {"&"}>>}

\* C16: in every adapter, decode of a text that is one reference (named,
\* decimal or hexadecimal) is the character of that reference.
C16_DecodeAllReferences ==
  (probe.fns = <<"decode">>)
  => \A rc \in ReferenceChars :
       probe.vals[1] = rc[1] => probe.vals[2] \in {<<c>> : c \in rc[2]}

\* C17: decode and clean applied to the empty string or to undefined return
\* the empty string and do not raise, in every adapter.
C17_EmptyInEmptyOut ==
  (Len(probe.fns) = 1 /\ probe.fns[1] \in {"decode", "clean"}
     /\ probe.vals[1] \in {<<>>, Undefined})
  => ~probe.raised /\ probe.vals[2] = <<>>

\* C18 as stated: clean(clean(x)) = clean(x) for every text x, markup and
\* references included.
C18_CleanIdempotent ==
  (probe.fns = <<"clean", "clean">>) => probe.vals[3] = probe.vals[2]

\* a text without tags and without references: no "<" and no "&"
PlainText(s) == s # Undefined /\ \A i \in 1..Len(s) : s[i] \notin {"<", "&"}

\* C18 as amended: clean(clean(x)) = clean(x) for every plain text x, and
\* clean(x) is then x trimmed (RWN: with runs of line breaks collapsed).
C18_CleanIdempotentOnPlainText ==
  (probe.fns = <<"clean", "clean">> /\ PlainText(probe.vals[1]))
  => /\ probe.vals[3] = probe.vals[2]
     /\ ~probe.raised
     /\ probe.vals[2] = trim(IF adapter = "RWN" THEN ReplaceAll("nl3", probe.vals[1])
                             ELSE probe.vals[1])

C18_Witness ==
  /\ probe.fns = <<"clean", "clean">> /\ adapter = "RWN"
  /\ probe.vals[1] = <<"\n", "\n", "a">>
  /\ probe.vals[2] = <<"a">> /\ probe.vals[3] = <<"a">>

\* the value of a field with patterns P1, P2 in that order: P1's capture when
\* P1 matched, else P2's capture when P2 matched, else the default
ChainValue(a, first, second, default) ==
  IF first # Absent THEN decodeEntities(a, trim(first))
  ELSE IF second # Absent THEN decodeEntities(a, trim(second))
  ELSE default

\* a container that matched with something in it
Usable(capture) == capture # Absent /\ capture # <<>>

\* getContent ended with the cleaned text of html, or raised when that is empty
ContentIs(a, html) ==
  IF cleanHtmlText(a, html) = <<>> THEN outcome = "raised"
  ELSE outcome = "returned" /\ result = cleanHtmlText(a, html)

\* C19: a field with a primary and a fallback pattern (author and cover of
\* MangaPill, chapter container of readwn) takes the primary's capture when
\* the primary matches, the fallback's capture when only the fallback
\* matches, and is absent (default; getContent raises) when neither matches.
C19_FallbackInOrder ==
  /\ (op = "details" /\ adapter \in {"MP1", "MP2"} /\ outcome = "returned")
     => /\ result.author = ChainValue(adapter, responses[1].body.author,
                                      responses[1].body.authorAlt, <<"N/A">>)
        /\ result.coverUrl = IF responses[1].body.cover # Absent
                                THEN responses[1].body.cover
                              ELSE IF responses[1].body.coverAlt # Absent
                                THEN responses[1].body.coverAlt
                              ELSE <<>>
  /\ (op = "content" /\ adapter = "RWN" /\ Done /\ Len(responses) = 1
        /\ Ok(responses[1]))
     => /\ Usable(responses[1].body.primary)
           => ContentIs(adapter, responses[1].body.primary)
        /\ (~Usable(responses[1].body.primary) /\ Usable(responses[1].body.fallback))
           => ContentIs(adapter, responses[1].body.fallback)
        /\ (~Usable(responses[1].body.primary) /\ ~Usable(responses[1].body.fallback))
           => outcome = "raised"

C19_Witness ==
  /\ adapter = "MP1" /\ op = "details" /\ outcome = "returned"
  /\ responses[1].body.author = Absent
  /\ responses[1].body.authorAlt = <<"Au2", " ">> /\ result.author = <<"Au2">>
  /\ responses[1].body.cover = <<"/", "cover">>
  /\ responses[1].body.coverAlt = <<"/", "cover2">>
  /\ result.coverUrl = <<"/", "cover">>

\* the positions of the images of doc that a pattern captures and its loop
\* accepts
AcceptedBy(a, doc, pass) ==
  {n \in 1..Len(doc) :
     IF pass = "primary" THEN doc[n].wrap = "page" /\ OnCdn(doc[n])
     ELSE LooksLikePage(a, doc[n])}

\* pages are the images of doc at the positions in from, in document order
PagesAre(pages, doc, from) ==
  /\ {pages[i].n : i \in 1..Len(pages)} = from
  /\ \A i \in 1..Len(pages) : pages[i].src = doc[pages[i].n].src
  /\ \A i \in 1..Len(pages) : \A j \in 1..Len(pages) : i < j => pages[i].n < pages[j].n

\* C20: the pages MangaPill's getContent returns are exactly those the
\* primary pattern contributed, or, when it contributed none, exactly those
\* the fallback pattern contributed; never some of each.
C20_PagesFromOnePattern ==
  (op = "content" /\ adapter \in {"MP1", "MP2"} /\ outcome = "returned")
  => PagesAre(result, responses[1].body,
              IF AcceptedBy(adapter, responses[1].body, "primary") # {}
              THEN AcceptedBy(adapter, responses[1].body, "primary")
              ELSE AcceptedBy(adapter, responses[1].body, "fallback"))

C20_Witness ==
  /\ op = "content" /\ adapter = "MP1" /\ outcome = "returned"
  /\ responses[1].body = <<[wrap |-> "page", src |-> "other"],
                           [wrap |-> "bare", src |-> "cdn-ch"]>>
  /\ result = <<[src |-> "cdn-ch", n |-> 2]>>

\* a request of the AJAX chapter listing
IsArchiveUrl(u) == u.path = <<"ajax", "chapter-archive">>

\* every request but the one in flight has ended: the requests of a call
\* are made one after the other
Sequential ==
  Len(requests) = Len(responses) + (IF pc \in {"primary", "alternate", "archive"} THEN 1 ELSE 0)

\* C21: RNF's getBookDetails requests the chapter listing only once the
\* primary page has arrived with a numeric novel id in it, with exactly that
\* id in the URL, and never when the page had no id; the requests of a call
\* are made strictly one after the other.
C21_ArchiveAfterNovelId ==
  /\ op # "none" => Sequential
  /\ (adapter = "RNF" /\ op = "details")
     => /\ \A k \in 1..Len(requests) :
             IsArchiveUrl(requests[k])
             => /\ k = 2 /\ Len(responses) >= 1 /\ Ok(responses[1])
                /\ responses[1].body.novelId # Absent
                /\ \A i \in 1..Len(responses[1].body.novelId) :
                     IsDigit(responses[1].body.novelId[i])
                /\ requests[k] = Url(Origin("RNF"), <<"ajax", "chapter-archive">>, "",
                                     responses[1].body.novelId)
        /\ (Len(responses) >= 1 /\ Ok(responses[1])
              /\ responses[1].body.novelId = Absent)
           => Done /\ Len(requests) = 1

C21_Witness ==
  /\ adapter = "RNF" /\ op = "details" /\ pc = "archive"
  /\ Len(responses) = 1 /\ responses[1].body.novelId = <<"4", "2">>
  /\ Len(requests) = 2 /\ requests[2].query = <<"4", "2">>

\* no request of the call in progress is made twice, a call makes at most
\* one, two or three requests, and a request after the first is RNF's second
\* one: the alternate URL after a non-success status of the primary, or the
\* chapter listing
RequestsBounded ==
  /\ op = "search" => Len(requests) <= 1
  /\ op = "content" => Len(requests) <= 2
  /\ op = "details" => Len(requests) <= 3
  /\ \A i \in 1..Len(requests) : \A j \in 1..Len(requests) :
       i # j => requests[i] # requests[j]
  /\ \A k \in 2..Len(requests) :
       IsArchiveUrl(requests[k])
       \/ (/\ k = 2 /\ adapter = "RNF" /\ requests[k] = Url(Origin("RNF"), arg, "", <<>>)
           /\ responses[1] # Throw /\ ~responses[1].ok)
  /\ outcome = "raised" => pc = "done" /\ Len(requests) = Len(responses)

\* C22: no operation has a retry loop: search makes at most one request,
\* getContent at most two, getBookDetails at most three; the alternate URL is
\* requested only after a non-success status of the primary; and once a call
\* has raised, nothing more is requested for it (the next step is a new call).
C22_NoRetryLoop ==
  /\ []RequestsBounded
  /\ [][outcome = "raised" => responses' = <<>> /\ Len(requests') <= 1]_vars

C22_Witness ==
  /\ adapter = "RNF" /\ op = "content" /\ outcome = "raised"
  /\ Len(requests) = 2 /\ Len(responses) = 2
  /\ NotOk(responses[1]) /\ NotOk(responses[2])
  /\ requests[2] = fallbackUrl("RNF", arg)

\* the matches are in document order
InDocumentOrder(ms) ==
  \A i \in 1..Len(ms) : \A j \in 1..Len(ms) : i < j => ms[i].index < ms[j].index

\* C23: extractAll returns, for every document and every pattern, and what
\* it returns is in document order.
C23_ExtractAllTerminates ==
  <>(scan.pc = "returned" /\ InDocumentOrder(scan.matches))

\* C24: nothing of the content of a script or style block is in what clean
\* returns.
C24_NoScriptContent ==
  (probe.fns = <<"clean">> /\ probe.vals[1] # Undefined)
  => \A i \in 1..Len(probe.vals[2]) : probe.vals[2][i] \notin {"z", "y"}

\* C25: what clean returns has no three line breaks in a row and no
\* whitespace at either end, whatever the input.
C25_CleanNormalised ==
  (probe.fns = <<"clean">>)
  => /\ probe.vals[2] = trim(probe.vals[2])
     /\ \A i \in 1..Len(probe.vals[2]) : NlRun(probe.vals[2], i) < 3

\* C26: in RNF's getBookDetails, after a successful primary page with a
\* novel id, a non-success status of the chapter listing does not fail the
\* call: the record has the fields of the primary page and no chapters; the
\* call fails only when the fetch of the listing raises.
C26_ArchiveStatusTolerated ==
  (adapter = "RNF" /\ op = "details" /\ Done /\ Len(responses) = 2
     /\ Ok(responses[1]) /\ responses[1].body.novelId # Absent)
  => /\ outcome = "raised" <=> responses[2] = Throw
     /\ NotOk(responses[2])
        => /\ result.chapters = <<>>
           /\ result.id = arg
           /\ result.title = detailsTitle(adapter, responses[1].body)
           /\ FieldResolved(adapter, result, "author", responses[1].body.author, Absent)
           /\ FieldResolved(adapter, result, "description", responses[1].body.desc, Absent)
           /\ FieldResolved(adapter, result, "coverUrl", responses[1].body.cover, Absent)
           /\ FieldResolved(adapter, result, "status", responses[1].body.status, Absent)
           /\ FieldResolved(adapter, result, "genres", responses[1].body.genres, <<>>)

C26_Witness ==
  /\ adapter = "RNF" /\ op = "details" /\ outcome = "returned"
  /\ Len(responses) = 2 /\ Ok(responses[1]) /\ NotOk(responses[2])
  /\ Len(responses[2].body.chapters) = 1
  /\ responses[1].body.author = <<"Au">> /\ result.author = <<"Au">>
  /\ result.chapters = <<>>

\* s is one decimal reference &#D..D;
IsDecRef(s) ==
  /\ Len(s) >= 4 /\ s[1] = "&" /\ s[2] = "#" /\ s[Len(s)] = ";"
  /\ \A i \in 3..(Len(s) - 1) : IsDigit(s[i])

\* s is one hexadecimal reference &#xH..H;
IsHexRef(s) ==
  /\ Len(s) >= 5 /\ s[1] = "&" /\ s[2] = "#" /\ s[3] = "x" /\ s[Len(s)] = ";"
  /\ \A i \in 4..(Len(s) - 1) : IsHexDigit(s[i])

\* decodeEntities of adapter a has been applied to one numeric reference of
\* a class it decodes
DecodedNumericRef ==
  /\ probe.fns = <<"decode">> /\ probe.vals[1] # Undefined
  /\ IsDecRef(probe.vals[1]) \/ (IsHexRef(probe.vals[1]) /\ adapter # "MP2")

\* the integer the reference s names
RefInteger(s) ==
  IF IsDecRef(s) THEN IntegerOf(SubSeq(s, 3, Len(s) - 1), 10)
  ELSE IntegerOf(SubSeq(s, 4, Len(s) - 1), 16)

\* C27 as stated: a numeric reference with value n decodes to exactly one
\* code unit, n mod 65536, whatever n is.
C27_NumericRefWraps ==
  DecodedNumericRef
  => probe.vals[2] = <<CodeUnit(ToUint16(RefInteger(probe.vals[1])))>>

\* C27 as amended: a numeric reference with value n decodes to exactly one
\* code unit, and for n below 2^53 that code unit is n mod 65536.
C27_NumericRefWrapsBelow2p53 ==
  DecodedNumericRef
  => /\ Len(probe.vals[2]) = 1
     /\ BitLen(RefInteger(probe.vals[1])) <= 53
        => probe.vals[2] = <<CodeUnit(ToUint16(RefInteger(probe.vals[1])))>>

C27_Witness ==
  /\ adapter = "MP1" /\ probe.fns = <<"decode">>
  /\ probe.vals[1] = <<"&", "#", "6", "5", "5", "7", "4", ";">>
  /\ probe.vals[2] = <<"&">>

=============================================================================
